---- MODULE Spec2Model ----
(***************************************************************************)
(* Model of the extension management cog, bot/exts/utils/extensions.py:    *)
(* the load, unload, reload and list commands, batch_manage and manage,    *)
(* over the host's extension table (bot.extensions).                       *)
(*                                                                         *)
(* A unit identifier is kept as the sequence of its dotted path segments   *)
(* (what ext.split(".") yields); Dotted gives back the string the code     *)
(* formats into its messages.  The wildcard tokens are the one-segment     *)
(* names "*" and "**".  Messages are the strings the code builds.          *)
(***************************************************************************)
EXTENDS Naturals, Sequences, FiniteSets, TLC

\* Longest argument list given to a command.
MaxArgs == 2

VARIABLES
  EXTENSIONS,   \* bot.utils.extensions.EXTENSIONS: the known units, fixed at start
  extensions,   \* keys of bot.extensions: the units the host has loaded
  health,       \* per unit, what running its module's setup does right now
  pc,           \* "idle", or "send": a handler is awaiting ctx.send / paginate
  cmd,          \* the command being answered
  args,         \* its converted arguments
  before,       \* the host's loaded set when the handler started
  called,       \* whether the handler reached batch_manage
  targets,      \* the units passed to batch_manage, in the order passed
  trace,        \* one record per top-level manage call of the handler, in order
  failures,     \* batch_manage's failures dict, as (unit, error) pairs in key order
  msg,          \* the text of the embed
  embed,        \* the kind of the embed: "error", "confirmation", "help", "info"
  categories    \* what group_extension_statuses returned (list command)

vars == <<EXTENSIONS, extensions, health, pc, cmd, args, before, called,
          targets, trace, failures, msg, embed, categories>>

(***************************************************************************)
(* Strings and small helpers.                                              *)
(***************************************************************************)

\* Python's None, where the code holds Optional[str].
None == "None"

\* bool(x) for an Optional[str].
Truthy(s) == s # None /\ s # ""

\* The backquote of the code's messages (a string of this language cannot
\* hold the character itself), and the fence of three of them.
Backquote == "^"

Fence == Backquote \o Backquote \o Backquote

\* sep.join(parts)
RECURSIVE Join(_, _)
Join(parts, sep) ==
  IF parts = <<>> THEN ""
  ELSE IF Len(parts) = 1 THEN parts[1]
  ELSE parts[1] \o sep \o Join(Tail(parts), sep)

\* The dotted name of a unit; ext.split(".") is its inverse.
Dotted(ext) == Join(ext, ".")

\* The orders in which iterating a Python set may yield its elements.
Orders(S) ==
  {s \in [1..Cardinality(S) -> S] : \A i, j \in 1..Cardinality(S) : i # j => s[i] # s[j]}

\* set(seq)
ToSet(seq) == {seq[i] : i \in 1..Len(seq)}

\* exts.__name__.split(".")
ExtsPackage == <<"bot", "exts">>

BASE_PATH_LEN == Len(ExtsPackage)

ManagementUnit == ExtsPackage \o <<"utils", "extensions">>

UNLOAD_BLACKLIST == {ManagementUnit}

Star == <<"*">>

StarStar == <<"**">>

\* The deployments considered: what walking the exts package may find.  This
\* module's own unit is always found.  Between them the sets hold a unit with
\* no category, one nested two packages deep, two units of one category, and
\* two units with the same last segment.
KnownSets ==
  {{ManagementUnit, ExtsPackage \o <<"ping">>, ExtsPackage \o <<"fun", "games", "chess">>},
   {ManagementUnit, ExtsPackage \o <<"utils", "ping">>, ExtsPackage \o <<"ping">>}}

\* What the Extension converter hands to a command for one argument.
Extension == EXTENSIONS \cup {Star, StarStar}

ArgLists == UNION {[1..n -> Extension] : n \in 0..MaxArgs}

Emojis_status_online == ":status_online:"

Emojis_status_offline == ":status_offline:"

(***************************************************************************)
(* The host: Bot.load_extension, unload_extension, reload_extension.       *)
(* Each returns the exception it raised (NoException when it returned) and *)
(* the host's loaded set afterwards.                                       *)
(***************************************************************************)

NoException == [cls |-> "NoException", text |-> ""]

ExtensionAlreadyLoaded(ext) ==
  [cls |-> "ExtensionAlreadyLoaded",
   text |-> "Extension '" \o Dotted(ext) \o "' is already loaded."]

ExtensionNotLoaded(ext) ==
  [cls |-> "ExtensionNotLoaded",
   text |-> "Extension '" \o Dotted(ext) \o "' has not been loaded."]

\* What importing the unit and running its setup raises, by the unit's health.
SetupError(ext, h) ==
  IF h[ext] = "raises" THEN
    [cls |-> "ExtensionFailed",
     text |-> "Extension '" \o Dotted(ext) \o "' raised an error: RuntimeError: setup failed",
     original |-> [cls |-> "RuntimeError", text |-> "setup failed"]]
  ELSE IF h[ext] = "nosetup" THEN
    [cls |-> "NoEntryPointError",
     text |-> "Extension '" \o Dotted(ext) \o "' has no 'setup' function."]
  ELSE NoException

\* A unit whose setup raises is not registered.
load_extension(ext, loaded, h) ==
  IF ext \in loaded THEN [exc |-> ExtensionAlreadyLoaded(ext), extensions |-> loaded]
  ELSE [exc |-> SetupError(ext, h),
        extensions |-> IF h[ext] = "ok" THEN loaded \cup {ext} ELSE loaded]

unload_extension(ext, loaded, h) ==
  IF ext \notin loaded THEN [exc |-> ExtensionNotLoaded(ext), extensions |-> loaded]
  ELSE [exc |-> NoException, extensions |-> loaded \ {ext}]

\* The host unloads the unit and loads it again; when that load raises, it
\* puts the old module back and raises the same exception.
reload_extension(ext, loaded, h) ==
  IF ext \notin loaded THEN [exc |-> ExtensionNotLoaded(ext), extensions |-> loaded]
  ELSE [exc |-> SetupError(ext, h),
        extensions |-> IF h[ext] = "ok" THEN (loaded \ {ext}) \cup {ext} ELSE loaded]

\* RELOAD bound to an unload followed by a load instead of the host's reload:
\* a unit whose load then fails is left unloaded.
ActionValue_ManualReload(action, ext, loaded, h) ==
  CASE action = "LOAD" -> load_extension(ext, loaded, h)
    [] action = "UNLOAD" -> unload_extension(ext, loaded, h)
    [] action = "RELOAD" ->
         IF ext \notin loaded THEN unload_extension(ext, loaded, h)
         ELSE load_extension(ext, loaded \ {ext}, h)

\* action.value(self.bot, ext)
ActionValue(action, ext, loaded, h) ==
  CASE action = "LOAD" -> load_extension(ext, loaded, h)
    [] action = "UNLOAD" -> unload_extension(ext, loaded, h)
    [] action = "RELOAD" -> reload_extension(ext, loaded, h)

\* action.name.lower()
Verb(action) ==
  CASE action = "LOAD" -> "load"
    [] action = "UNLOAD" -> "unload"
    [] action = "RELOAD" -> "reload"

(***************************************************************************)
(* manage and batch_manage.                                                *)
(***************************************************************************)

\* One manage call's outcome: the returned (msg, error_msg) pair, the host's
\* loaded set afterwards, the host operations it invoked in order, and how
\* many nested manage calls it made.
Outcome(ext, m, error_msg, loaded, calls, depth) ==
  [ext |-> ext, msg |-> m, error_msg |-> error_msg, extensions |-> loaded,
   calls |-> calls, depth |-> depth]

\* f"{e.__class__.__name__}: {e}" after e = e.original when e has one.
ErrorMsg(e) ==
  LET inner == IF "original" \in DOMAIN e THEN e.original ELSE e
  IN inner.cls \o ": " \o inner.text

RECURSIVE manage(_, _, _, _)

\* Handle without the fallback of RELOAD to LOAD.
Handle_NoFallback(action, ext, r, h) ==
  IF r.exc.cls \in {"ExtensionAlreadyLoaded", "ExtensionNotLoaded"} THEN
    Outcome(ext,
            "Extension " \o Backquote \o Dotted(ext) \o Backquote
              \o " is already " \o Verb(action) \o "ed.",
            None, r.extensions, <<<<action, ext>>>>, 0)
  ELSE IF r.exc.cls # "NoException" THEN
    Outcome(ext,
            "Failed to " \o Verb(action) \o " extension " \o Backquote \o Dotted(ext)
              \o Backquote \o ":\n" \o Fence \o "\n" \o ErrorMsg(r.exc) \o Fence,
            ErrorMsg(r.exc), r.extensions, <<<<action, ext>>>>, 0)
  ELSE
    Outcome(ext,
            "Extension successfully " \o Verb(action) \o "ed: " \o Backquote
              \o Dotted(ext) \o Backquote \o ".",
            None, r.extensions, <<<<action, ext>>>>, 0)

\* Handle with the already-loaded / not-loaded exceptions falling into the
\* general except clause.
Handle_AlreadyIsError(action, ext, r, h) ==
  IF r.exc.cls \in {"ExtensionAlreadyLoaded", "ExtensionNotLoaded"} /\ action = "RELOAD" THEN
    [manage("LOAD", ext, r.extensions, h)
       EXCEPT !.calls = <<<<action, ext>>>> \o @, !.depth = @ + 1]
  ELSE IF r.exc.cls # "NoException" THEN
    Outcome(ext,
            "Failed to " \o Verb(action) \o " extension " \o Backquote \o Dotted(ext)
              \o Backquote \o ":\n" \o Fence \o "\n" \o ErrorMsg(r.exc) \o Fence,
            ErrorMsg(r.exc), r.extensions, <<<<action, ext>>>>, 0)
  ELSE
    Outcome(ext,
            "Extension successfully " \o Verb(action) \o "ed: " \o Backquote
              \o Dotted(ext) \o Backquote \o ".",
            None, r.extensions, <<<<action, ext>>>>, 0)

\* The except and else clauses of manage: r is what action.value did.
Handle(action, ext, r, h) ==
  IF r.exc.cls \in {"ExtensionAlreadyLoaded", "ExtensionNotLoaded"} THEN
    IF action = "RELOAD" THEN
      [manage("LOAD", ext, r.extensions, h)
         EXCEPT !.calls = <<<<action, ext>>>> \o @, !.depth = @ + 1]
    ELSE
      Outcome(ext,
              "Extension " \o Backquote \o Dotted(ext) \o Backquote
                \o " is already " \o Verb(action) \o "ed.",
              None, r.extensions, <<<<action, ext>>>>, 0)
  ELSE IF r.exc.cls # "NoException" THEN
    Outcome(ext,
            "Failed to " \o Verb(action) \o " extension " \o Backquote \o Dotted(ext)
              \o Backquote \o ":\n" \o Fence \o "\n" \o ErrorMsg(r.exc) \o Fence,
            ErrorMsg(r.exc), r.extensions, <<<<action, ext>>>>, 0)
  ELSE
    Outcome(ext,
            "Extension successfully " \o Verb(action) \o "ed: " \o Backquote
              \o Dotted(ext) \o Backquote \o ".",
            None, r.extensions, <<<<action, ext>>>>, 0)

manage(action, ext, loaded, h) ==
  Handle(action, ext, ActionValue(action, ext, loaded, h), h)

\* failures[extension] = error, on a dict kept as pairs in key insertion order.
SetItem(d, k, v) ==
  IF \E i \in 1..Len(d) : d[i][1] = k
    THEN [i \in 1..Len(d) |-> IF d[i][1] = k THEN <<k, v>> ELSE d[i]]
  ELSE Append(d, <<k, v>>)

\* The body of batch_manage's loop: r is what manage returned for ext.
Record(acc, ext, r) ==
  [extensions |-> r.extensions,
   trace |-> Append(acc.trace, r),
   failures |-> IF Truthy(r.error_msg)
                  THEN SetItem(acc.failures, ext, r.error_msg)
                ELSE acc.failures]

\* The loop leaving at the first failure.
RECURSIVE BatchLoop_StopAtFailure(_, _, _, _, _)
BatchLoop_StopAtFailure(action, exts, i, acc, h) ==
  IF i > Len(exts) \/ acc.failures # <<>> THEN acc
  ELSE BatchLoop_StopAtFailure(action, exts, i + 1,
                               Record(acc, exts[i], manage(action, exts[i], acc.extensions, h)), h)

\* The for loop of batch_manage from position i on.
RECURSIVE BatchLoop(_, _, _, _, _)
BatchLoop(action, exts, i, acc, h) ==
  IF i > Len(exts) THEN acc
  ELSE BatchLoop(action, exts, i + 1,
                 Record(acc, exts[i], manage(action, exts[i], acc.extensions, h)), h)

\* "\n".join(f"{ext}\n    {err}" for ext, err in failures.items())
FailureLines(d) ==
  Join([i \in 1..Len(d) |-> Dotted(d[i][1]) \o "\n    " \o d[i][2]], "\n")

\* The "K / N extensions <verb>ed." message with its failures block.
BatchMsg(action, n, d) ==
  ToString(n - Len(d)) \o " / " \o ToString(n) \o " extensions " \o Verb(action) \o "ed."
    \o (IF d # <<>> THEN "\n\n**Failures:**" \o Fence \o "\n" \o FailureLines(d) \o Fence ELSE "")

\* The return of batch_manage when it defers to manage.
Single(r) ==
  [msg |-> r.msg, status |-> Truthy(r.error_msg), extensions |-> r.extensions,
   trace |-> <<r>>, failures |-> <<>>]

\* The return after the loop, an error only when every unit failed.
Report_ErrorWhenAllFail(action, n, done) ==
  [msg |-> BatchMsg(action, n, done.failures),
   status |-> Len(done.failures) = n,
   extensions |-> done.extensions,
   trace |-> done.trace,
   failures |-> done.failures]

\* The return of batch_manage after its loop.
Report(action, n, done) ==
  [msg |-> BatchMsg(action, n, done.failures),
   status |-> done.failures # <<>>,
   extensions |-> done.extensions,
   trace |-> done.trace,
   failures |-> done.failures]

batch_manage(action, exts, loaded, h) ==
  IF Len(exts) = 1 THEN Single(manage(action, exts[1], loaded, h))
  ELSE Report(action, Len(exts),
              BatchLoop(action, exts, 1,
                        [extensions |-> loaded, trace |-> <<>>, failures |-> <<>>], h))

(***************************************************************************)
(* The commands.  Each handler computes its answer without suspending and  *)
(* then awaits ctx.send; the answer is dropped when the send completes.    *)
(***************************************************************************)

\* The argument tuple, or the orders a set built from it may be unpacked in.
LoadTargets(a, loaded) ==
  IF Star \in ToSet(a) \/ StarStar \in ToSet(a)
    THEN Orders(EXTENSIONS \ loaded)
  ELSE {a}

\* The blacklist check made after the wildcard replaced the arguments.
Blacklisted_AfterWildcard(a) ==
  IF Star \in ToSet(a) \/ StarStar \in ToSet(a) THEN {}
  ELSE UNLOAD_BLACKLIST \cap ToSet(a)

\* UNLOAD_BLACKLIST & set(extensions)
Blacklisted(a) == UNLOAD_BLACKLIST \cap ToSet(a)

\* "\n".join(UNLOAD_BLACKLIST & set(extensions)), in each order of the set.
BlacklistedText(a) == {Join([i \in 1..Len(o) |-> Dotted(o[i])], "\n") : o \in Orders(Blacklisted(a))}

\* The wildcard unload without the blacklist taken out.
UnloadTargets_WholeLoadedSet(a, loaded) ==
  IF Star \in ToSet(a) \/ StarStar \in ToSet(a)
    THEN Orders(loaded)
  ELSE {a}

\* What unload_command passes to batch_manage.
UnloadTargets(a, loaded) ==
  IF Star \in ToSet(a) \/ StarStar \in ToSet(a)
    THEN Orders(loaded \ UNLOAD_BLACKLIST)
  ELSE {a}

\* The "*" reload dropping the units named beside it.
ReloadTargets_DropNamed(a, loaded) ==
  IF StarStar \in ToSet(a) THEN Orders(EXTENSIONS)
  ELSE IF Star \in ToSet(a) THEN Orders(loaded)
  ELSE {a}

\* What reload_command passes to batch_manage.
ReloadTargets(a, loaded) ==
  IF StarStar \in ToSet(a) THEN Orders(EXTENSIONS)
  ELSE IF Star \in ToSet(a) THEN Orders((loaded \cup ToSet(a)) \ {Star})
  ELSE {a}

\* create_embed("error" if did_error else "confirmation", msg)
EmbedKind(did_error) == IF did_error THEN "error" ELSE "confirmation"

\* ctx.send_help(ctx.command); return
SendHelp(c, a) ==
  /\ pc' = "send"
  /\ cmd' = c
  /\ args' = a
  /\ before' = extensions
  /\ called' = FALSE
  /\ targets' = <<>>
  /\ trace' = <<>>
  /\ failures' = <<>>
  /\ msg' = ""
  /\ embed' = "help"
  /\ UNCHANGED <<EXTENSIONS, extensions, health, categories>>

\* The handler has (msg, did_error) from batch_manage and builds its embed.
Answer(c, a, t, r) ==
  /\ pc' = "send"
  /\ cmd' = c
  /\ args' = a
  /\ before' = extensions
  /\ called' = TRUE
  /\ targets' = t
  /\ trace' = r.trace
  /\ failures' = r.failures
  /\ msg' = r.msg
  /\ embed' = EmbedKind(r.status)
  /\ extensions' = r.extensions
  /\ UNCHANGED <<EXTENSIONS, health, categories>>

\* msg, did_error = self.batch_manage(action, *extensions)
Manage(c, action, a, t) ==
  Answer(c, a, t, batch_manage(action, t, extensions, health))

load_command ==
  /\ pc = "idle"
  /\ \E a \in ArgLists :
       IF a = <<>> THEN SendHelp("load", a)
       ELSE \E t \in LoadTargets(a, extensions) : Manage("load", "LOAD", a, t)

\* The branch of unload_command that refuses the request.
Refuse(a) ==
  \E text \in BlacklistedText(a) :
    /\ pc' = "send"
    /\ cmd' = "unload"
    /\ args' = a
    /\ before' = extensions
    /\ called' = FALSE
    /\ targets' = <<>>
    /\ trace' = <<>>
    /\ failures' = <<>>
    /\ msg' = "The following extension(s) may not be unloaded:" \o Fence \o "\n" \o text \o Fence
    /\ embed' = EmbedKind(TRUE)
    /\ UNCHANGED <<EXTENSIONS, extensions, health, categories>>

unload_command ==
  /\ pc = "idle"
  /\ \E a \in ArgLists :
       IF a = <<>> THEN SendHelp("unload", a)
       ELSE IF \E text \in BlacklistedText(a) : Truthy(text) THEN Refuse(a)
       ELSE \E t \in UnloadTargets(a, extensions) : Manage("unload", "UNLOAD", a, t)

reload_command ==
  /\ pc = "idle"
  /\ \E a \in ArgLists :
       IF a = <<>> THEN SendHelp("reload", a)
       ELSE \E t \in ReloadTargets(a, extensions) : Manage("reload", "RELOAD", a, t)

(***************************************************************************)
(* The list command.                                                       *)
(***************************************************************************)

\* The category of a unit, from its path.
Category(path) ==
  IF Len(path) > BASE_PATH_LEN + 1
    THEN Join(SubSeq(path, BASE_PATH_LEN + 1, Len(path) - 1), " - ")
  ELSE "uncategorised"

\* f"{status}  {path[-1]}"
StatusLine(path, loaded) ==
  (IF path \in loaded THEN Emojis_status_online ELSE Emojis_status_offline)
    \o "  " \o path[Len(path)]

\* categories[category] = [line]: a bucket keeps only its last line.
SetDefaultAppend_Overwrite(c, category, line) ==
  [k \in DOMAIN c \cup {category} |-> IF k = category THEN <<line>> ELSE c[k]]

\* categories.setdefault(category, []).append(line)
SetDefaultAppend(c, category, line) ==
  IF category \in DOMAIN c
    THEN [c EXCEPT ![category] = Append(@, line)]
  ELSE [k \in DOMAIN c \cup {category} |-> IF k = category THEN <<line>> ELSE c[k]]

\* The loop of group_extension_statuses over EXTENSIONS, taken in the order
\* known, from position i on.
RECURSIVE GroupLoop(_, _, _, _)
GroupLoop(known, i, c, loaded) ==
  IF i > Len(known) THEN c
  ELSE GroupLoop(known, i + 1,
                 SetDefaultAppend(c, Category(known[i]), StatusLine(known[i], loaded)),
                 loaded)

EmptyDict == [k \in {} |-> <<>>]

group_extension_statuses(known, loaded) == GroupLoop(known, 1, EmptyDict, loaded)

\* The handler groups the units and hands the buckets, each rendered as one
\* block of text, to the paginator.
list_command ==
  /\ pc = "idle"
  /\ \E known \in Orders(EXTENSIONS) :
       /\ categories' = group_extension_statuses(known, extensions)
       /\ pc' = "send"
       /\ cmd' = "list"
       /\ args' = <<>>
       /\ before' = extensions
       /\ called' = FALSE
       /\ targets' = <<>>
       /\ trace' = <<>>
       /\ failures' = <<>>
       /\ msg' = ""
       /\ embed' = "info"
       /\ UNCHANGED <<EXTENSIONS, extensions, health>>

(***************************************************************************)
(* The rest of the system.                                                 *)
(***************************************************************************)

\* await ctx.send(embed=embed) (or the paginator) completes: the handler
\* returns and its answer is gone.
send ==
  /\ pc = "send"
  /\ pc' = "idle"
  /\ cmd' = "none"
  /\ args' = <<>>
  /\ before' = extensions
  /\ called' = FALSE
  /\ targets' = <<>>
  /\ trace' = <<>>
  /\ failures' = <<>>
  /\ msg' = ""
  /\ embed' = "none"
  /\ categories' = EmptyDict
  /\ UNCHANGED <<EXTENSIONS, extensions, health>>

Healths == {"ok", "raises", "nosetup"}

\* Between commands a unit's module is edited: what its setup does changes.
EditModule ==
  /\ pc = "idle"
  /\ \E u \in EXTENSIONS, v \in Healths :
       /\ health[u] # v
       /\ health' = [health EXCEPT ![u] = v]
  /\ UNCHANGED <<EXTENSIONS, extensions, pc, cmd, args, before, called,
                 targets, trace, failures, msg, embed, categories>>

\* The cog exists, so its own unit has been loaded; every loaded unit's setup
\* ran without an error.
Init ==
  /\ EXTENSIONS \in KnownSets
  /\ extensions \in {L \in SUBSET EXTENSIONS : ManagementUnit \in L}
  /\ health = [u \in EXTENSIONS |-> "ok"]
  /\ pc = "idle"
  /\ cmd = "none"
  /\ args = <<>>
  /\ before = extensions
  /\ called = FALSE
  /\ targets = <<>>
  /\ trace = <<>>
  /\ failures = <<>>
  /\ msg = ""
  /\ embed = "none"
  /\ categories = EmptyDict

Next ==
  \/ load_command
  \/ unload_command
  \/ reload_command
  \/ list_command
  \/ send
  \/ EditModule

Spec == Init /\ [][Next]_vars

(***************************************************************************)
(* What the claims speak of, read off the answer of the running handler.   *)
(***************************************************************************)

\* A load, unload or reload handler has called batch_manage and not yet returned.
Managed == pc = "send" /\ called

\* The Action the command applies.
ActionOf(c) ==
  CASE c = "load" -> "LOAD"
    [] c = "unload" -> "UNLOAD"
    [] c = "reload" -> "RELOAD"

\* The host's loaded set when the i-th manage call of the handler began.
Pre(i) == IF i = 1 THEN before ELSE trace[i - 1].extensions

\* The i-th manage call returned an error message.
ReturnedError(i) == trace[i].error_msg # None

\* The number of manage calls that returned no error.
Successes == Cardinality({i \in 1..Len(trace) : ~ReturnedError(i)})

\* The units named by the arguments, wildcards included.
Requested == {args[i] : i \in 1..Len(args)}

\* The text a failing setup of unit u is reported with.
ExpectedError(u) ==
  IF health[u] = "raises" THEN "RuntimeError: setup failed"
  ELSE "NoEntryPointError: Extension '" \o Dotted(u) \o "' has no 'setup' function."

\* The host operation asked for the i-th unit fails with an error other than
\* already-loaded / not-loaded: a load or reload runs the setup of a unit
\* whose setup fails.  An unload runs no setup.
FailedOp(i) ==
  /\ health[trace[i].ext] # "ok"
  /\ \/ cmd = "reload"
     \/ cmd = "load" /\ trace[i].ext \notin Pre(i)

\* C1: in a batch report "K / N extensions <verb>ed.", K plus the number of
\* units listed as failures is N, the number of units requested, and K is the
\* number of requested units whose manage call returned no error.
C1_BatchCounts ==
  (Managed /\ Len(targets) # 1) =>
    /\ Successes + Len(failures) = Len(targets)
    /\ msg = ToString(Successes) \o " / " \o ToString(Len(targets)) \o " extensions "
               \o cmd \o "ed."
               \o (IF failures # <<>>
                     THEN "\n\n**Failures:**" \o Fence \o "\n" \o FailureLines(failures) \o Fence
                   ELSE "")

\* C2: an unload request naming a blacklisted unit invokes no host operation,
\* leaves the loaded set as it was, reports exactly the blacklisted units
\* requested, and is marked as an error.
C2_BlacklistedUnloadTouchesNothing ==
  (pc = "send" /\ cmd = "unload" /\ UNLOAD_BLACKLIST \cap Requested # {}) =>
    /\ ~called
    /\ trace = <<>>
    /\ extensions = before
    /\ embed = "error"
    /\ \E o \in Orders(UNLOAD_BLACKLIST \cap Requested) :
         msg = "The following extension(s) may not be unloaded:" \o Fence \o "\n"
                 \o Join([i \in 1..Len(o) |-> Dotted(o[i])], "\n") \o Fence

\* C2 happens: a refused unload that also named a loaded unit off the blacklist.
C2_Witness ==
  /\ pc = "send" /\ cmd = "unload"
  /\ UNLOAD_BLACKLIST \cap Requested # {}
  /\ (Requested \cap before) \ UNLOAD_BLACKLIST # {}

C4_ReloadOfUnloadedIsLoad ==
  /\ \A u \in EXTENSIONS \ extensions :
       /\ manage("RELOAD", u, extensions, health).msg = manage("LOAD", u, extensions, health).msg
       /\ manage("RELOAD", u, extensions, health).error_msg
            = manage("LOAD", u, extensions, health).error_msg
       /\ manage("RELOAD", u, extensions, health).extensions
            = manage("LOAD", u, extensions, health).extensions
       /\ manage("RELOAD", u, extensions, health).depth = 1
       /\ manage("LOAD", u, extensions, health).depth = 0
  /\ (Managed /\ cmd = "reload") =>
       \A i \in 1..Len(trace) :
         /\ trace[i].depth <= 1
         /\ trace[i].ext \notin Pre(i) =>
              /\ trace[i].msg = manage("LOAD", trace[i].ext, Pre(i), health).msg
              /\ trace[i].error_msg = manage("LOAD", trace[i].ext, Pre(i), health).error_msg
              /\ trace[i].extensions = manage("LOAD", trace[i].ext, Pre(i), health).extensions
              /\ trace[i].calls = <<<<"RELOAD", trace[i].ext>>, <<"LOAD", trace[i].ext>>>>

\* C4 happens: a reload command met a unit that was not loaded and fell back.
C4_Witness ==
  /\ Managed /\ cmd = "reload"
  /\ \E i \in 1..Len(trace) : trace[i].ext \notin Pre(i) /\ trace[i].depth = 1

\* C5: manage(LOAD) of a loaded unit and manage(UNLOAD) of an unloaded unit
\* return no error and the message "Extension <unit> is already <verb>ed.",
\* leave the loaded set alone, and as a one-unit request are not an error.
C5_AlreadyInTargetState ==
  Managed =>
    \A i \in 1..Len(trace) :
      (\/ cmd = "load" /\ trace[i].ext \in Pre(i)
       \/ cmd = "unload" /\ trace[i].ext \notin Pre(i)) =>
        /\ trace[i].error_msg = None
        /\ trace[i].msg = "Extension " \o Backquote \o Dotted(trace[i].ext) \o Backquote
                            \o " is already " \o cmd \o "ed."
        /\ trace[i].extensions = Pre(i)
        /\ Len(targets) = 1 => (msg = trace[i].msg /\ embed = "confirmation")

\* C5 happens: a one-unit load of a unit that was loaded.
C5_Witness ==
  /\ Managed /\ cmd = "load"
  /\ Len(targets) = 1
  /\ targets[1] \in before

\* C6: batch_manage applies the host operation to every unit it was given,
\* one manage call per unit, in the order given, whatever the earlier units'
\* outcomes; every manage call returns an outcome.
C6_EveryUnitInOrder ==
  Managed =>
    /\ Len(trace) = Len(targets)
    /\ \A i \in 1..Len(trace) :
         /\ trace[i].ext = targets[i]
         /\ trace[i].calls # <<>>
         /\ trace[i].calls[1] = <<ActionOf(cmd), targets[i]>>
         /\ \A j \in 1..Len(trace[i].calls) : trace[i].calls[j][2] = targets[i]
         /\ trace[i].msg # ""

\* C6 happens: in a batch, a unit failed and a unit after it was still applied
\* and succeeded.
C6_Witness ==
  /\ Managed /\ Len(targets) >= 2
  /\ \E i, j \in 1..Len(trace) :
       i < j /\ ReturnedError(i) /\ ~ReturnedError(j) /\ trace[j].extensions # Pre(j)

\* C7: group_extension_statuses puts every known unit into exactly one
\* bucket, the one of its category, exactly once, with the online marker
\* exactly when the unit is loaded: each bucket holds each line as many times
\* as there are known units of that category with that line, and there are no
\* other buckets.
C7_GroupingIsPartition ==
  (pc = "send" /\ cmd = "list") =>
    /\ DOMAIN categories =
         {IF Len(u) > BASE_PATH_LEN + 1
            THEN Join(SubSeq(u, BASE_PATH_LEN + 1, Len(u) - 1), " - ")
          ELSE "uncategorised" : u \in EXTENSIONS}
    /\ \A u \in EXTENSIONS :
         LET c == IF Len(u) > BASE_PATH_LEN + 1
                    THEN Join(SubSeq(u, BASE_PATH_LEN + 1, Len(u) - 1), " - ")
                  ELSE "uncategorised"
             line == (IF u \in extensions THEN Emojis_status_online
                      ELSE Emojis_status_offline) \o "  " \o u[Len(u)]
             wrong == (IF u \in extensions THEN Emojis_status_offline
                       ELSE Emojis_status_online) \o "  " \o u[Len(u)]
         IN /\ c \in DOMAIN categories
            /\ Cardinality({i \in 1..Len(categories[c]) : categories[c][i] = line})
                 = Cardinality({v \in EXTENSIONS :
                                  /\ Category(v) = c
                                  /\ v[Len(v)] = u[Len(u)]
                                  /\ (v \in extensions) = (u \in extensions)})
            /\ Cardinality({i \in 1..Len(categories[c]) : categories[c][i] = wrong})
                 = Cardinality({v \in EXTENSIONS :
                                  /\ Category(v) = c
                                  /\ v[Len(v)] = u[Len(u)]
                                  /\ (v \in extensions) # (u \in extensions)})
    /\ \A c \in DOMAIN categories :
         Len(categories[c]) = Cardinality({v \in EXTENSIONS : Category(v) = c})

\* C7 happens: a listing with a bucket of two units, some unit loaded and
\* some unit not.
C7_Witness ==
  /\ pc = "send" /\ cmd = "list"
  /\ \E c \in DOMAIN categories : Len(categories[c]) = 2
  /\ EXTENSIONS \ extensions # {}

\* C8: the reload command applies the action to exactly the units of: all of
\* EXTENSIONS when "**" is among the arguments; otherwise, when "*" is among
\* them, the units loaded at the call together with every named unit, without
\* the "*" token.
C8_ReloadTargets ==
  (pc = "send" /\ cmd = "reload" /\ args # <<>>) =>
    /\ called
    /\ StarStar \in Requested => ToSet(targets) = EXTENSIONS
    /\ (StarStar \notin Requested /\ Star \in Requested) =>
         ToSet(targets) = (before \cup Requested) \ {Star}
    /\ (StarStar \in Requested \/ Star \in Requested) =>
         /\ Len(targets) = Cardinality(ToSet(targets))
         /\ Len(trace) = Len(targets)
         /\ \A i \in 1..Len(trace) :
              trace[i].ext = targets[i] /\ trace[i].calls[1] = <<"RELOAD", targets[i]>>

\* C8 happens: a reload with "*" that also named a unit that was not loaded.
C8_Witness ==
  /\ Managed /\ cmd = "reload"
  /\ Star \in Requested /\ StarStar \notin Requested
  /\ (Requested \ {Star}) \ before # {}

C10_ErrorIffFailure ==
  (pc = "send" /\ cmd \in {"load", "unload", "reload"} /\ args # <<>>) =>
    /\ (embed = "error") <=>
         \/ \E i \in 1..Len(trace) : FailedOp(i)
         \/ cmd = "unload" /\ UNLOAD_BLACKLIST \cap Requested # {}
    /\ embed \in {"error", "confirmation"}
    /\ (called /\ Len(targets) = 1 /\ FailedOp(1)) =>
         \E verb \in {"load", "reload"} :
           msg = "Failed to " \o verb \o " extension " \o Backquote \o Dotted(targets[1])
                   \o Backquote \o ":\n" \o Fence \o "\n" \o ExpectedError(targets[1]) \o Fence
    /\ (called /\ Len(targets) # 1) =>
         /\ \A i \in 1..Len(trace) :
              FailedOp(i) <=>
                \E j \in 1..Len(failures) :
                  failures[j] = <<trace[i].ext, ExpectedError(trace[i].ext)>>
         /\ \A j \in 1..Len(failures) :
              \E i \in 1..Len(trace) : trace[i].ext = failures[j][1] /\ FailedOp(i)
         /\ msg = BatchMsg(ActionOf(cmd), Len(targets), failures)

\* C10 happens: a batch in which one unit failed and another succeeded.
C10_Witness ==
  /\ Managed /\ Len(targets) >= 2
  /\ embed = "error"
  /\ \E i, j \in 1..Len(trace) : FailedOp(i) /\ ~FailedOp(j)

====
